---- MODULE Spec2Model ----
(***************************************************************************)
(* Model of the standin-be import backend: the URL classifier              *)
(* (services/url_detector.py), the single and batch import handlers        *)
(* (document/api.py, jira/api.py, confluence/api.py, meeting/api.py) and   *)
(* the persistence calls they make (document/service.py, minio_client.py). *)
(*                                                                         *)
(* A URL is a sequence of atoms.  An atom is a run of letters, a run of    *)
(* digits or one punctuation character, so that the regular expressions of *)
(* the source can be run on it item by item.                               *)
(***************************************************************************)
EXTENDS Integers, Sequences, FiniteSets, TLC

VARIABLES
    url,           \* classifier runs: the URL string given to parse_url
    tailLen,       \* classifier runs: how many pieces were appended to url
    parsed,        \* classifier runs: the dict parse_url(url) returned
    bucketExists,  \* object store: the bucket BUCKET_NAME exists
    db,            \* documents table: id -> row
    nextId,        \* documents table: the next id the sequence assigns
    blobs,         \* object store: object name -> content
    lastCall,      \* the last request handled: what it did and what it answered
    upload,        \* file runs: the form and the environment of the last import
    target,        \* document runs: the id the last get, download or delete named
    asked,         \* batch runs: the max_results of the last batch request
    pending,       \* pull runs: the pull request in progress and its remote call
    meetings,      \* meeting runs: the meetings table, id -> row
    threads,       \* meeting runs: what each worker thread is doing
    answer         \* meeting runs: the last answer sent

vars == <<url, tailLen, parsed, bucketExists, db, nextId, blobs, lastCall, upload,
          target, asked, pending, meetings, threads, answer>>

meetingVars == <<meetings, threads, answer>>

\* what a run of the import handlers leaves alone
sideVars == <<target, asked, pending, meetingVars>>

urlVars == <<url, tailLen, parsed>>

storeVars == <<bucketExists, db, nextId, blobs, lastCall>>

-----------------------------------------------------------------------------
(* Atoms and character classes                                             *)

DigitAtoms == {"1", "2", "3", "4", "5", "42", "123"}

UpperAtoms == {"ABC", "KAN", "WIKI", "BROWSE", "HTTPS"}

MixedAtoms == {"pageId", "rapidView", "RapidBoard", "Title"}

LowerAtoms ==
    {"http", "https", "ftp", "wiki", "spaces", "pages", "display", "browse",
     "jira", "projects", "issues", "secure", "software", "boards", "viewpage",
     "action", "jspa", "co", "kan", "u", "docs"}

\* str.lower() on one atom, as re.IGNORECASE compares
Lower(a) ==
    CASE a = "ABC" -> "abc"
      [] a = "KAN" -> "kan"
      [] a = "WIKI" -> "wiki"
      [] a = "BROWSE" -> "browse"
      [] a = "HTTPS" -> "https"
      [] a = "pageId" -> "pageid"
      [] a = "rapidView" -> "rapidview"
      [] a = "RapidBoard" -> "rapidboard"
      [] a = "Title" -> "title"
      [] OTHER -> a

\* does atom x belong to the character class c (\d, [A-Z], [^/]) ?
InClass(c, x, ic) ==
    CASE c = "digit" -> x \in DigitAtoms
      [] c = "upper" -> IF ic THEN x \in UpperAtoms \cup MixedAtoms \cup LowerAtoms
                              ELSE x \in UpperAtoms
      [] c = "notslash" -> x # "/"

-----------------------------------------------------------------------------
(* Regular expressions: a sequence of items, each a literal atom, an       *)
(* alternative of literal atoms (https?) or a class repeated once or more  *)

Lit(a) == [k |-> "lit", a |-> a]

Alt(S) == [k |-> "alt", s |-> S]

Plus(c) == [k |-> "plus", c |-> c]

\* one path segment given literally: /name
Seg(a) == <<Lit("/"), Lit(a)>>

HttpPrefix == <<Alt({"http", "https"}), Lit(":"), Lit("/"), Lit("/"), Plus("notslash")>>

ItemMatches(it, x, ic) ==
    IF it.k = "lit" THEN (IF ic THEN Lower(x) = Lower(it.a) ELSE x = it.a)
    ELSE IF ic THEN Lower(x) \in {Lower(a) : a \in it.s} ELSE x \in it.s

RECURSIVE RunLen(_, _, _, _)
\* the number of consecutive atoms of class c in s from position i
RunLen(c, s, i, ic) ==
    IF i <= Len(s) /\ InClass(c, s[i], ic) THEN 1 + RunLen(c, s, i + 1, ic) ELSE 0

SetMax(S) == CHOOSE n \in S : \A m \in S : m <= n

SetMin(S) == CHOOSE n \in S : \A m \in S : n <= m

RECURSIVE Greedy(_, _, _, _, _)
\* The match of items j.. of re against s from position i, as Python's
\* backtracking matcher finds it (each + takes the longest run that lets the
\* rest match): {} when there is none, else {ends} with ends[k] the position
\* after item j+k-1.
Greedy(re, j, s, i, ic) ==
    IF j > Len(re) THEN {<<>>}
    ELSE IF re[j].k = "plus"
    THEN LET run == RunLen(re[j].c, s, i, ic)
             ok == {n \in 1..run : Greedy(re, j + 1, s, i + n, ic) # {}}
         IN IF ok = {} THEN {}
            ELSE {<<i + SetMax(ok)>> \o r : r \in Greedy(re, j + 1, s, i + SetMax(ok), ic)}
    ELSE IF i <= Len(s) /\ ItemMatches(re[j], s[i], ic)
    THEN {<<i + 1>> \o r : r \in Greedy(re, j + 1, s, i + 1, ic)}
    ELSE {}

\* re.search(re, s): is there a match starting anywhere in s
Search(re, s, ic) == \E i \in 1..Len(s) : Greedy(re, 1, s, i, ic) # {}

\* the text of items a..b of the leftmost match (a capture group); the match exists
Group(re, s, ic, a, b) ==
    LET i0 == SetMin({i \in 1..Len(s) : Greedy(re, 1, s, i, ic) # {}})
        ends == CHOOSE r \in Greedy(re, 1, s, i0, ic) : TRUE
        from == IF a = 1 THEN i0 ELSE ends[a - 1]
    IN SubSeq(s, from, ends[b] - 1)

-----------------------------------------------------------------------------
(* services/url_detector.py                                                *)

CONFLUENCE_PATTERNS ==
    << HttpPrefix \o Seg("wiki") \o Seg("spaces") \o <<Lit("/"), Plus("notslash")>>
          \o Seg("pages") \o <<Lit("/"), Plus("digit")>>,
       HttpPrefix \o Seg("wiki") \o <<Lit("/"), Plus("notslash"), Lit("/"), Plus("notslash")>>,
       HttpPrefix \o Seg("display") \o <<Lit("/"), Plus("notslash"), Lit("/"), Plus("notslash")>>,
       HttpPrefix \o Seg("pages")
          \o <<Lit("/"), Lit("viewpage"), Lit("."), Lit("action"), Lit("?"),
               Lit("pageId"), Lit("="), Plus("digit")>> >>

IssueKeyRe == <<Plus("upper"), Lit("-"), Plus("digit")>>

JIRA_PATTERNS ==
    << HttpPrefix \o Seg("browse") \o <<Lit("/")>> \o IssueKeyRe,
       HttpPrefix \o Seg("jira") \o Seg("browse") \o <<Lit("/")>> \o IssueKeyRe,
       HttpPrefix \o Seg("projects") \o <<Lit("/"), Plus("notslash")>> \o Seg("issues")
          \o <<Lit("/")>> \o IssueKeyRe,
       HttpPrefix \o Seg("secure")
          \o <<Lit("/"), Lit("RapidBoard"), Lit("."), Lit("jspa"), Lit("?"),
               Lit("rapidView"), Lit("="), Plus("digit")>>,
       HttpPrefix \o Seg("jira") \o Seg("software") \o Seg("projects")
          \o <<Lit("/"), Plus("notslash")>> \o Seg("boards") \o <<Lit("/"), Plus("digit")>> >>

MatchesAny(patterns, u) == \E p \in 1..Len(patterns) : Search(patterns[p], u, TRUE)

detect_source_type(u) ==
    IF u = <<>> THEN "unknown"
    ELSE IF MatchesAny(CONFLUENCE_PATTERNS, u) THEN "confluence"
    ELSE IF MatchesAny(JIRA_PATTERNS, u) THEN "jira"
    ELSE "unknown"

None == [t |-> "none"]

PageIdParamRe == <<Lit("pageId"), Lit("="), Plus("digit")>>

PagesIdRe == Seg("pages") \o <<Lit("/"), Plus("digit"), Lit("/")>>

extract_confluence_page_id(u) ==
    IF detect_source_type(u) # "confluence" THEN None
    ELSE IF Search(PageIdParamRe, u, FALSE)
    THEN [t |-> "page", id |-> Group(PageIdParamRe, u, FALSE, 3, 3)]
    ELSE IF Search(PagesIdRe, u, FALSE)
    THEN [t |-> "page", id |-> Group(PagesIdRe, u, FALSE, 4, 4)]
    ELSE None

BrowseKeyRe == Seg("browse") \o <<Lit("/")>> \o IssueKeyRe

IssuesKeyRe == Seg("issues") \o <<Lit("/")>> \o IssueKeyRe

extract_jira_issue_key(u) ==
    IF detect_source_type(u) # "jira" THEN None
    ELSE IF Search(BrowseKeyRe, u, FALSE)
    THEN [t |-> "issue", key |-> Group(BrowseKeyRe, u, FALSE, 4, 6)]
    ELSE IF Search(IssuesKeyRe, u, FALSE)
    THEN [t |-> "issue", key |-> Group(IssuesKeyRe, u, FALSE, 4, 6)]
    ELSE None

BoardRe ==
    Seg("jira") \o Seg("software") \o Seg("projects") \o <<Lit("/"), Plus("notslash")>>
       \o Seg("boards") \o <<Lit("/"), Plus("digit")>>

RapidViewRe == <<Lit("rapidView"), Lit("="), Plus("digit")>>

extract_jira_board_info(u) ==
    IF detect_source_type(u) # "jira" THEN None
    ELSE IF Search(BoardRe, u, FALSE)
    THEN [t |-> "board", project_key |-> Group(BoardRe, u, FALSE, 8, 8),
          board_id |-> Group(BoardRe, u, FALSE, 12, 12)]
    ELSE IF Search(RapidViewRe, u, FALSE)
    THEN [t |-> "rapid", rapid_view_id |-> Group(RapidViewRe, u, FALSE, 3, 3)]
    ELSE None

RECURSIVE UpTo(_, _, _)
\* the atoms of s from position i up to the first atom in stop
UpTo(s, i, stop) ==
    IF i > Len(s) \/ s[i] \in stop THEN <<>> ELSE <<s[i]>> \o UpTo(s, i + 1, stop)

\* urlparse(u).netloc for scheme://netloc...
Netloc(u) ==
    IF Len(u) >= 4 /\ u[2] = ":" /\ u[3] = "/" /\ u[4] = "/"
    THEN UpTo(u, 5, {"/", "?", "#"}) ELSE <<>>

parse_url(u) ==
    LET source_type == detect_source_type(u)
        board_info == extract_jira_board_info(u)
    IN IF source_type = "unknown"
       THEN [source_type |-> source_type, url |-> u, domain |-> <<>>, identifier |-> None,
             is_valid |-> FALSE, url_type |-> "none"]
       ELSE IF source_type = "confluence"
       THEN [source_type |-> source_type, url |-> u, domain |-> Netloc(u),
             identifier |-> extract_confluence_page_id(u), is_valid |-> TRUE,
             url_type |-> "none"]
       ELSE IF board_info # None
       THEN [source_type |-> source_type, url |-> u, domain |-> Netloc(u),
             identifier |-> board_info, is_valid |-> TRUE, url_type |-> "board"]
       ELSE [source_type |-> source_type, url |-> u, domain |-> Netloc(u),
             identifier |-> extract_jira_issue_key(u), is_valid |-> TRUE,
             url_type |-> "issue"]

-----------------------------------------------------------------------------
(* The remote sources, file names, object names and contents               *)

NoUrl == <<>>

\* scheme://co
Host(scheme) == <<scheme, ":", "/", "/", "co">>

UrlIssue == Host("https") \o <<"/", "browse", "/", "KAN", "-", "1">>

UrlIssueLower == Host("https") \o <<"/", "browse", "/", "kan", "-", "1">>

UrlBoard ==
    Host("https") \o <<"/", "jira", "/", "software", "/", "projects", "/", "KAN", "/", "boards", "/", "42">>

UrlRapid ==
    Host("https") \o <<"/", "secure", "/", "RapidBoard", ".", "jspa", "?", "rapidView", "=", "42">>

UrlPage ==
    Host("https") \o <<"/", "wiki", "/", "spaces", "/", "ABC", "/", "pages", "/", "123", "/", "Title">>

UrlWikiNoId == Host("https") \o <<"/", "wiki", "/", "docs", "/", "Title">>

UrlUnknown == Host("https") \o <<"/", "docs">>

RequestUrls == {UrlIssue, UrlIssueLower, UrlBoard, UrlRapid, UrlPage, UrlWikiNoId, UrlUnknown}

\* the text of the upstream error a failed remote call reports
Upstream == "503 Server Error: Service Unavailable"

\* the key of the i-th issue a search returns
IssueKey(i) == <<"KAN", "-", ToString(i)>>

\* f"jira-{issue_key}-{safe_summary}.txt"
FnIssue(key) == <<"jira-">> \o key \o <<"-", "Fix-login-bug", ".txt">>

\* f"confluence-{page_id}-{safe_title}.txt"
FnPage(id) == <<"confluence-">> \o id \o <<"-", "Title", ".txt">>

\* f"jira-board-{safe_project}-{timestamp}.txt"
FnBoard(project_key) == <<"jira-board-">> \o project_key \o <<"-", "timestamp", ".txt">>

\* file.filename of the upload the requests of Spec carry
FnUpload == <<"notes", ".txt">>

\* f"content-{timestamp}.txt"
FnContent == <<"content-", "timestamp", ".txt">>

\* the readable text built for a document, and json.dumps of its row content
Text(fn) == <<"text">> \o fn

JsonDump(fn) == <<"json">> \o fn

NoContent == <<>>

\* str(document.id) + "_" + document.filename
IdKey(id, fn) == <<ToString(id), "_">> \o fn

\* the part of Document.content the model keeps: of an uploaded file its media
\* type, the text extracted from it and the extraction_method tag
NoMetadata == [content_type |-> "none", content |-> <<>>, extraction_method |-> "none"]

Row(fn, link) ==
    [filename |-> fn, external_link |-> link, meeting_id |-> 0, doc_type |-> "file",
     content |-> NoMetadata]

\* the keys of the json_content that format_issue_content of jira_service.py
\* builds, apart from "subtasks"
IssueFields ==
    {"issue_key", "summary", "description", "issue_type", "status", "priority",
     "assignee", "reporter", "project_name", "project_key", "created", "updated"}

\* a subtask as fetch_issue_subtasks returns it, and its {key, summary, status}
Subtask == [key |-> <<"KAN", "-", "9">>, summary |-> "Write tests", status |-> "To Do"]

\* jira_service.py, format_issue_content: json_content; subtasks is the list the
\* caller passes, <<>> for None and for an empty list
issue_json_content(issue_key, subtasks) ==
    [k \in IssueFields \cup {"subtasks"} |->
        IF k = "subtasks" THEN subtasks
        ELSE IF k = "issue_key" THEN issue_key
        ELSE <<k>>]

\* jira_service.py, format_issue_for_storage: json_content
storage_json_content(issue_key, subtasks) ==
    [k \in IssueFields \cup {"epic_name", "epic_link", "subtasks"} |->
        IF k = "subtasks" THEN subtasks
        ELSE IF k = "issue_key" THEN issue_key
        ELSE <<k>>]

\* services/jira_service.py, format_issue_content: json_content
services_issue_json_content(issue_key) ==
    [page_id |-> issue_key, title |-> <<"summary">>,
     content |-> <<"JIRA Issue: ">> \o issue_key, url |-> Host("https") \o <<"/", "browse", "/">> \o issue_key,
     source |-> "jira"]

\* the Document row of a JIRA issue: Row with json_content as its content
IssueRow(fn, link, json_content) == [Row(fn, link) EXCEPT !.content = json_content]

-----------------------------------------------------------------------------
(* What a call did, in order: rows committed and objects written           *)

RowEv(id, fn) == [e |-> "row", id |-> id, filename |-> fn, key |-> <<>>]

BlobEv(key) == [e |-> "blob", id |-> 0, filename |-> <<>>, key |-> key]

BlobFailedEv(key) == [e |-> "blob_failed", id |-> 0, filename |-> <<>>, key |-> key]

\* the stores as a call finds them, with nothing done yet
Store ==
    [bucketExists |-> bucketExists, db |-> db, nextId |-> nextId, blobs |-> blobs,
     trace |-> <<>>]

Put(b, k, c) == [x \in DOMAIN b \cup {k} |-> IF x = k THEN c ELSE b[x]]

-----------------------------------------------------------------------------
(* What the environment does to one call: at most one step of it fails     *)
(* (and the one pair of failures a call can see both of)                   *)

OkEnv ==
    [fetch |-> "ok", format |-> "ok", bucket |-> "ok", upload |-> "ok", db |-> "ok",
     upload2 |-> "ok", link |-> "ok", pdf |-> TRUE, subtasks |-> <<>>,
     board |-> <<"ok">>]

\* the failures create_document can meet
PersistEnvs ==
    { [OkEnv EXCEPT !.upload = "false"],
      [OkEnv EXCEPT !.upload = "raise"],
      [OkEnv EXCEPT !.db = "raise"] }

\* POST /document/import, POST /jira/pull
Envs ==
    { OkEnv,
      [OkEnv EXCEPT !.fetch = "fail"],
      [OkEnv EXCEPT !.format = "raise"],
      [OkEnv EXCEPT !.bucket = "raise"],
      [OkEnv EXCEPT !.subtasks = <<Subtask>>] } \cup PersistEnvs

\* POST /confluence/pull writes two objects
ConfluenceEnvs == Envs \cup {[OkEnv EXCEPT !.upload2 = "false"]}

\* POST /meetings/{id}/documents/import creates no bucket and links the document
MeetingEnvs ==
    { OkEnv,
      [OkEnv EXCEPT !.fetch = "fail"],
      [OkEnv EXCEPT !.format = "raise"],
      [OkEnv EXCEPT !.link = "raise"],
      [OkEnv EXCEPT !.upload = "false", !.link = "raise"] } \cup PersistEnvs

\* what happens to one item of a batch
ItemOutcomes == {"ok", "format", "upload_false", "upload_raise", "db"}

-----------------------------------------------------------------------------
(* Exceptions                                                              *)

NoExc == [type |-> "none", code |-> 0, msg |-> <<>>, at |-> "none"]

HTTPException(code, detail, at) ==
    [type |-> "HTTPException", code |-> code, msg |-> detail, at |-> at]

ValueError(msg, at) == [type |-> "ValueError", code |-> 0, msg |-> msg, at |-> at]

Exception(msg, at) == [type |-> "Exception", code |-> 0, msg |-> msg, at |-> at]

\* str(e)
Str(e) == IF e.type = "HTTPException" THEN <<ToString(e.code), ": ">> \o e.msg ELSE e.msg

-----------------------------------------------------------------------------
(* minio_client.py                                                         *)

\* raises S3Error, or leaves the bucket existing
create_bucket_if_not_exists(st, outcome) ==
    IF outcome = "raise"
    THEN [st |-> st, exc |-> Exception(<<"S3Error">>, "bucket")]
    ELSE [st |-> [st EXCEPT !.bucketExists = TRUE], exc |-> NoExc]

\* put_object; S3Error is caught and reported as False, anything else propagates.
\* Without the bucket the object store answers NoSuchBucket, an S3Error.
upload_file_content(st, content, object_name, outcome) ==
    LET eff == IF outcome = "ok" /\ ~st.bucketExists THEN "false" ELSE outcome
    IN IF eff = "ok"
       THEN [st |-> [st EXCEPT !.blobs = Put(@, object_name, content),
                               !.trace = Append(@, BlobEv(object_name))],
             ret |-> "true"]
       ELSE [st |-> [st EXCEPT !.trace = Append(@, BlobFailedEv(object_name))],
             ret |-> eff]

\* get_object; S3Error (no such key) is caught and reported as None
download_file(st, object_name) ==
    IF object_name \in DOMAIN st.blobs THEN st.blobs[object_name] ELSE NoContent

-----------------------------------------------------------------------------
(* db.add(document); db.commit(); db.refresh(document)                     *)
(* A failed commit leaves no row; the id it would have had is not consumed *)
(* in the model.                                                           *)

\* an insert that looks the document up by its external link first and returns
\* the row it finds
db_add_commit_dedup(st, row, outcome) ==
    LET same == {id \in DOMAIN st.db : /\ row.external_link # NoUrl
                                       /\ st.db[id].external_link = row.external_link}
    IN IF outcome = "raise"
       THEN [st |-> st, id |-> 0, exc |-> Exception(<<"OperationalError">>, "db")]
       ELSE IF same # {}
       THEN [st |-> st, id |-> SetMin(same), exc |-> NoExc]
       ELSE [st |-> [st EXCEPT !.db = @ @@ (st.nextId :> row),
                               !.nextId = @ + 1,
                               !.trace = Append(@, RowEv(st.nextId, row.filename))],
             id |-> st.nextId, exc |-> NoExc]

db_add_commit(st, row, outcome) ==
    IF outcome = "raise"
    THEN [st |-> st, id |-> 0, exc |-> Exception(<<"OperationalError">>, "db")]
    ELSE [st |-> [st EXCEPT !.db = @ @@ (st.nextId :> row),
                            !.nextId = @ + 1,
                            !.trace = Append(@, RowEv(st.nextId, row.filename))],
          id |-> st.nextId, exc |-> NoExc]

-----------------------------------------------------------------------------
(* document/service.py                                                     *)

\* DocumentService.create_document: the value of upload_file_content is dropped
create_document(st, row, minio_content, dbOutcome, uploadOutcome) ==
    LET ins == db_add_commit(st, row, dbOutcome)
        content == IF minio_content # NoContent THEN minio_content
                   ELSE JsonDump(row.filename)
        up == upload_file_content(ins.st, content, IdKey(ins.id, row.filename), uploadOutcome)
    IN IF ins.exc # NoExc THEN [st |-> ins.st, id |-> 0, exc |-> ins.exc]
       ELSE IF up.ret = "raise"
       THEN [st |-> up.st, id |-> 0, exc |-> Exception(<<"ConnectionError">>, "upload")]
       ELSE [st |-> up.st, id |-> ins.id, exc |-> NoExc]

\* DocumentService.download_document, for a row that exists
download_document(st, id) == download_file(st, IdKey(id, st.db[id].filename))

-----------------------------------------------------------------------------
(* jira_service.py, services/jira_service.py, confluence_service.py        *)

RECURSIVE IndexOf(_, _, _)
\* the first position from i of an atom of stop in s, or Len(s) + 1
IndexOf(s, stop, i) ==
    IF i > Len(s) \/ s[i] \in stop THEN i ELSE IndexOf(s, stop, i + 1)

\* urlparse(u).path
UrlPath(u) == UpTo(u, IndexOf(u, {"/", "?", "#"}, 5), {"?", "#"})

\* urlparse(u).query
UrlQuery(u) == UpTo(u, IndexOf(u, {"?"}, 1) + 1, {"#"})

\* parse_qs(query)[name][0], or <<>> when the query has no such parameter
QueryParam(q, name) ==
    LET at == {i \in 1..Len(q) : /\ q[i] = name
                                 /\ (i = 1 \/ q[i - 1] = "&")
                                 /\ i < Len(q) /\ q[i + 1] = "="
                                 /\ UpTo(q, i + 2, {"&"}) # <<>>}
    IN IF at = {} THEN <<>> ELSE UpTo(q, SetMin(at) + 2, {"&"})

\* JiraService.extract_issue_key_from_url: <<>> stands for None
extract_issue_key_from_url(u) ==
    LET path == UrlPath(u)
    IN IF Search(BrowseKeyRe, path, FALSE) THEN Group(BrowseKeyRe, path, FALSE, 4, 6)
       ELSE IF Search(IssuesKeyRe, path, FALSE) THEN Group(IssuesKeyRe, path, FALSE, 4, 6)
       ELSE <<>>

PagesIdPathRe == Seg("pages") \o <<Lit("/"), Plus("digit")>>

\* ConfluenceService.extract_page_id_from_url: <<>> stands for None
extract_page_id_from_url(u) ==
    LET path == UrlPath(u)
        q == UrlQuery(u)
    IN IF QueryParam(q, "pageId") # <<>> THEN QueryParam(q, "pageId")
       ELSE IF Search(PagesIdPathRe, path, FALSE) THEN Group(PagesIdPathRe, path, FALSE, 4, 4)
       ELSE <<>>

\* the classifier and the adapters' extractors on the URLs the requests carry,
\* computed once
ParsedUrl == [u \in RequestUrls |-> parse_url(u)]

IssueKeyOf == [u \in RequestUrls |-> extract_issue_key_from_url(u)]

PageIdOf == [u \in RequestUrls |-> extract_page_id_from_url(u)]

\* JiraService.fetch_issue_by_url: the exception it raises, if any
fetch_issue_by_url(u, env) ==
    IF IssueKeyOf[u] = <<>>
    THEN ValueError(<<"Could not extract issue key from URL">>, "url")
    ELSE IF env.fetch = "fail"
    THEN Exception(<<"Error fetching issue: ", Upstream>>, "fetch")
    ELSE NoExc

\* ConfluenceService.fetch_page_by_url: the exception it raises, if any
fetch_page_by_url(u, env) ==
    IF PageIdOf[u] = <<>>
    THEN ValueError(<<"Could not extract page ID from URL">>, "url")
    ELSE IF env.fetch = "fail"
    THEN Exception(<<"Error fetching page: ", Upstream>>, "fetch")
    ELSE NoExc

\* JiraService.fetch_board_issues: the exception it raises, if any
fetch_board_issues(project_key, env) ==
    IF env.fetch = "fail"
    THEN Exception(<<"Error fetching board issues: ", "Error searching issues with JQL: ",
                     Upstream>>, "fetch")
    ELSE IF \E i \in DOMAIN env.board : env.board[i] = "fail"
    THEN Exception(<<"Error fetching board issues: ", "Error fetching issue: ", Upstream>>,
                   "fetch")
    ELSE NoExc

\* format_issue_content / extract_page_content on data they cannot read
\* (a null assignee, a null title): the exception raised, if any
format_content(env) ==
    IF env.format = "raise" THEN Exception(<<"AttributeError">>, "format") ELSE NoExc

-----------------------------------------------------------------------------
(* services/file_processor.py                                              *)
(* A file name is a sequence of atoms: a run of word characters, one       *)
(* separator character, or an extension.                                   *)

SUPPORTED_TEXT_TYPES == {"text/plain", "text/markdown"}

SUPPORTED_DOCUMENT_TYPES == {"application/pdf", "application/vnd.ms-excel"}

SUPPORTED_FILE_TYPES == SUPPORTED_TEXT_TYPES \cup SUPPORTED_DOCUMENT_TYPES

is_supported_file_type(content_type) == content_type \in SUPPORTED_FILE_TYPES

is_text_file(content_type) == content_type \in SUPPORTED_TEXT_TYPES

\* an UploadFile: its declared media type, its file name and whether its bytes
\* are what the media type says ("readable": valid UTF-8, a well-formed PDF)
File(content_type, filename, payload) ==
    [content_type |-> content_type, filename |-> filename, payload |-> payload]

\* file: Optional[UploadFile] = File(None)
NoFile == File("none", <<>>, "none")

\* extract_pdf_content
extract_pdf_content(payload, env) ==
    IF ~env.pdf THEN <<"PDF processing not available. Please install PyPDF2.">>
    ELSE IF payload = "readable" THEN <<"--- Page 1 ---", "page text">>
    ELSE <<"Error extracting PDF content: ", "EOF marker not found">>

\* extract_document_content
extract_document_content(payload, content_type, env) ==
    IF content_type = "application/pdf" THEN extract_pdf_content(payload, env)
    ELSE <<"Document type ", content_type, " not yet supported for content extraction">>

\* read_file_content: the text and the file name it returns. Bytes that are not
\* UTF-8 are decoded as latin-1, which decodes every byte string.
read_file_content(file, env) ==
    [content |->
        IF is_text_file(file.content_type)
        THEN (IF file.payload = "readable" THEN <<"text decoded as utf-8">>
              ELSE <<"text decoded as latin-1">>)
        ELSE IF file.content_type \in SUPPORTED_DOCUMENT_TYPES
        THEN extract_document_content(file.payload, file.content_type, env)
        ELSE <<"Unsupported file type: ", file.content_type,
               "Binary content (base64): ", "base64">>,
     filename |-> IF file.filename = <<>> THEN <<"unknown">> ELSE file.filename]

\* the atoms re.sub(r'[^\w\s.-]', '', name) removes
StrippedAtoms == {"/", "$"}

RECURSIVE Hyphenate(_)
\* re.sub(r'[-\s]+', '-', name)
Hyphenate(name) ==
    IF name = <<>> THEN <<>>
    ELSE IF Head(name) \in {" ", "-"}
    THEN IF Len(name) > 1 /\ name[2] \in {" ", "-"} THEN Hyphenate(Tail(name))
         ELSE <<"-">> \o Hyphenate(Tail(name))
    ELSE <<Head(name)>> \o Hyphenate(Tail(name))

\* mimetypes.guess_extension(content_type) or '.txt'
GuessExtension(content_type) ==
    IF content_type = "application/pdf" THEN ".pdf" ELSE ".txt"

NotStripped(a) == a \notin StrippedAtoms

\* generate_filename
generate_filename(original_filename, content_type) ==
    IF original_filename = <<>> THEN <<"uploaded_file", GuessExtension(content_type)>>
    ELSE Hyphenate(SelectSeq(original_filename, NotStripped))

\* get_extraction_method
get_extraction_method(content_type) ==
    IF content_type \in SUPPORTED_TEXT_TYPES THEN "text_decode"
    ELSE IF content_type = "application/pdf" THEN "pdf_extract"
    ELSE "base64_encode"

\* create_file_metadata
create_file_metadata(file, content) ==
    [content_type |-> file.content_type, content |-> content,
     extraction_method |-> get_extraction_method(file.content_type)]

-----------------------------------------------------------------------------
(* document/api.py                                                         *)

Failed(st, exc) == [st |-> st, id |-> 0, exc |-> exc]

\* _handle_url_import from line 84 on, url_info being what parse_url returned
url_import(st, u, env, url_info) ==
    LET fetched == IF url_info.source_type = "confluence" THEN fetch_page_by_url(u, env)
                   ELSE IF url_info.url_type = "board"
                   THEN fetch_board_issues(url_info.identifier.project_key, env)
                   ELSE fetch_issue_by_url(u, env)
        fn == IF url_info.source_type = "confluence" THEN FnPage(PageIdOf[u])
              ELSE IF url_info.url_type = "board" THEN FnBoard(url_info.identifier.project_key)
              ELSE FnIssue(IssueKeyOf[u])
    IN IF ~url_info.is_valid
       THEN Failed(st, HTTPException(400, <<"Invalid or unsupported URL">>, "classification"))
       ELSE IF url_info.url_type = "board" /\ url_info.identifier.t # "board"
       THEN Failed(st, HTTPException(400, <<"Could not extract project key from board URL">>,
                                     "classification"))
       ELSE IF fetched # NoExc THEN Failed(st, fetched)
       ELSE IF url_info.url_type # "board" /\ format_content(env) # NoExc
       THEN Failed(st, format_content(env))
       ELSE create_document(st,
                IF url_info.source_type = "jira" /\ url_info.url_type # "board"
                THEN IssueRow(fn, u, services_issue_json_content(IssueKeyOf[u]))
                ELSE Row(fn, u),
                Text(fn), env.db, env.upload)

\* _handle_url_import
handle_url_import(st, u, env) == url_import(st, u, env, ParsedUrl[u])

\* _handle_file_import from line 199 on, read being what read_file_content
\* returned; filename is the form's parameter, <<>> when it is not given
file_import(st, file, filename, env, read) ==
    create_document(st,
        [Row(IF filename # <<>> THEN filename
             ELSE generate_filename(read.filename, file.content_type), NoUrl)
            EXCEPT !.content = create_file_metadata(file, read.content)],
        read.content, env.db, env.upload)

\* _handle_file_import with an extractor that raises where extract_pdf_content
\* catches: a PDF that cannot be read, or read without PyPDF2, ends the import
handle_file_import_raising_extractor(st, file, filename, env) ==
    IF ~is_supported_file_type(file.content_type)
    THEN Failed(st, HTTPException(400, <<"Unsupported file type: ", file.content_type>>,
                                  "request"))
    ELSE IF file.content_type = "application/pdf" /\ (~env.pdf \/ file.payload # "readable")
    THEN Failed(st, Exception(<<"PdfReadError">>, "extract"))
    ELSE file_import(st, file, filename, env, read_file_content(file, env))

\* _handle_file_import
handle_file_import(st, file, filename, env) ==
    IF ~is_supported_file_type(file.content_type)
    THEN Failed(st, HTTPException(400, <<"Unsupported file type: ", file.content_type>>,
                                  "request"))
    ELSE file_import(st, file, filename, env, read_file_content(file, env))

\* _handle_content_import
handle_content_import(st, filename, env) ==
    create_document(st, Row(IF filename # <<>> THEN filename ELSE FnContent, NoUrl),
                    Text(FnContent), env.db, env.upload)

\* a POST /document/import form; NoUrl, NoFile, "none" and <<>> are parameters
\* that are not given
Form(source, u, file, content, filename) ==
    [source |-> source, url |-> u, file |-> file, content |-> content,
     filename |-> filename]

\* the POST /document/import forms the model sends
ImportRequests ==
    {Form("url", u, NoFile, "none", <<>>) : u \in RequestUrls \cup {NoUrl}}
    \cup {Form("file", NoUrl, f, "none", <<>>) :
             f \in {NoFile, File("text/plain", FnUpload, "readable"),
                    File("image/png", FnUpload, "readable")}}
    \cup {Form("content", NoUrl, NoFile, c, <<>>) : c \in {"none", "text"}}
    \cup {Form("bogus", NoUrl, NoFile, "text", <<>>)}

\* the forms the model sends to POST /meetings/{id}/documents/import
MeetingRequests ==
    {r \in ImportRequests : \/ r.url \in {UrlIssue, UrlUnknown, UrlRapid}
                            \/ r.source = "content"}

\* the branches of import_document and import_meeting_document over a form;
\* otherwise is what the caller does with a form that takes none of them
Dispatch(st, req, env, otherwise) ==
    IF req.source = "url" /\ req.url # NoUrl THEN handle_url_import(st, req.url, env)
    ELSE IF req.source = "file" /\ req.file # NoFile
    THEN handle_file_import(st, req.file, req.filename, env)
    ELSE IF req.source = "content" /\ req.content # "none"
    THEN handle_content_import(st, req.filename, env)
    ELSE Failed(st, otherwise)

\* an answer: op, the step that failed (or "none"), the status code, the detail of
\* an error, and the fields of a success
Answer(op, cause, code, detail, ids, st) ==
    [op |-> op, cause |-> cause, code |-> code, detail |-> detail, document_ids |-> ids,
     total |-> 0, failed |-> 0, items |-> <<>>, content |-> NoContent, trace |-> st.trace]

\* import_document, how the body of its try ends: every exception, HTTPException
\* included, is answered 500
import_document_ends(r) ==
    IF r.exc # NoExc
    THEN [st |-> r.st,
          ans |-> Answer("import_document", r.exc.at, 500,
                         <<"Failed to import document: ">> \o Str(r.exc), <<>>, r.st)]
    ELSE [st |-> r.st, ans |-> Answer("import_document", "none", 200, <<>>, <<r.id>>, r.st)]

\* import_document
import_document(st, req, env) ==
    LET b == create_bucket_if_not_exists(st, env.bucket)
    IN import_document_ends(
           IF b.exc # NoExc THEN Failed(b.st, b.exc)
           ELSE Dispatch(b.st, req, env,
                    HTTPException(400, <<"Invalid source type or missing required parameters">>,
                                  "request")))

\* GET /document/{id}/download
download(st, id) ==
    IF id \notin DOMAIN st.db
    THEN [st |-> st, ans |-> Answer("download_document", "notfound", 404,
                                    <<"Document not found">>, <<>>, st)]
    ELSE [st |-> st,
          ans |-> [Answer("download_document", "none", 200, <<>>, <<id>>, st)
                      EXCEPT !.content = download_document(st, id)]]

\* the documents table without the row id
WithoutRow(rows, id) == [x \in DOMAIN rows \ {id} |-> rows[x]]

\* the object store without the object k
WithoutObject(b, k) == [x \in DOMAIN b \ {k} |-> b[x]]

\* DocumentService.delete_document that also removes the object of the document
\* (delete_file of minio_client.py)
service_delete_document_and_object(st, id, outcome) ==
    IF outcome = "raise"
    THEN [st |-> st, exc |-> Exception(<<"OperationalError">>, "db")]
    ELSE [st |-> [st EXCEPT !.db = WithoutRow(@, id),
                            !.blobs = WithoutObject(@, IdKey(id, st.db[id].filename))],
          exc |-> NoExc]

\* DocumentService.delete_document: outcome is what db.commit() does
service_delete_document(st, id, outcome) ==
    IF outcome = "raise"
    THEN [st |-> st, exc |-> Exception(<<"OperationalError">>, "db")]
    ELSE [st |-> [st EXCEPT !.db = WithoutRow(@, id)], exc |-> NoExc]

\* DELETE /document/{id}, r being what DocumentService.delete_document did
delete_document_ends(id, r) ==
    IF r.exc # NoExc
    THEN [st |-> r.st,
          ans |-> Answer("delete_document", r.exc.at, 500,
                         <<"Failed to delete document: ">> \o Str(r.exc), <<>>, r.st)]
    ELSE [st |-> r.st, ans |-> Answer("delete_document", "none", 200, <<>>, <<id>>, r.st)]

\* DELETE /document/{id}
delete_document(st, id, env) ==
    IF id \notin DOMAIN st.db
    THEN [st |-> st, ans |-> Answer("delete_document", "notfound", 404,
                                    <<"Document not found">>, <<>>, st)]
    ELSE delete_document_ends(id, service_delete_document(st, id, env.db))

\* GET /document/{id}
get_document(st, id) ==
    IF id \notin DOMAIN st.db
    THEN [st |-> st, ans |-> Answer("get_document", "notfound", 404,
                                    <<"Document not found">>, <<>>, st)]
    ELSE [st |-> st, ans |-> Answer("get_document", "none", 200, <<>>, <<id>>, st)]

-----------------------------------------------------------------------------
(* jira/api.py                                                             *)

\* except ValueError -> 400 with str(e); except Exception -> 500 with prefix and str(e)
PullAnswer(op, prefix, st, exc) ==
    IF exc.type = "ValueError" THEN Answer(op, exc.at, 400, exc.msg, <<>>, st)
    ELSE Answer(op, exc.at, 500, <<prefix>> \o Str(exc), <<>>, st)

\* pull_jira_issue
pull_jira_issue(st, u, env) ==
    LET op == "pull_jira_issue"
        prefix == "Failed to pull JIRA issue: "
        fetched == fetch_issue_by_url(u, env)
        fn == FnIssue(IssueKeyOf[u])
        b == create_bucket_if_not_exists(st, env.bucket)
        up == upload_file_content(b.st, Text(fn), fn, env.upload)
        ins == db_add_commit(up.st,
                   IssueRow(fn, u, issue_json_content(IssueKeyOf[u], env.subtasks)), env.db)
    IN IF fetched # NoExc THEN [st |-> st, ans |-> PullAnswer(op, prefix, st, fetched)]
       ELSE IF format_content(env) # NoExc
       THEN [st |-> st, ans |-> PullAnswer(op, prefix, st, format_content(env))]
       ELSE IF b.exc # NoExc THEN [st |-> b.st, ans |-> PullAnswer(op, prefix, b.st, b.exc)]
       ELSE IF up.ret = "raise"
       THEN [st |-> up.st,
             ans |-> PullAnswer(op, prefix, up.st, Exception(<<"ConnectionError">>, "upload"))]
       ELSE IF up.ret = "false"
       THEN [st |-> up.st,
             ans |-> PullAnswer(op, prefix, up.st,
                        HTTPException(500, <<"Failed to upload content to MinIO">>, "upload"))]
       ELSE IF ins.exc # NoExc THEN [st |-> ins.st, ans |-> PullAnswer(op, prefix, ins.st, ins.exc)]
       ELSE [st |-> ins.st, ans |-> Answer(op, "none", 200, <<>>, <<ins.id>>, ins.st)]

\* the external_link of a batch item: f"{base_url}/browse/{issue_key}"
BrowseLink(key) == Host("https") \o <<"/", "browse", "/">> \o key

RECURSIVE search_loop(_, _, _, _)
\* search_jira_issues, the loop over the issues found: items[i] is what happens to
\* issue i; the result is the stores and document_ids
search_loop(st, items, i, document_ids) ==
    IF i > Len(items) THEN [st |-> st, document_ids |-> document_ids]
    ELSE LET fn == FnIssue(IssueKey(i))
             up == upload_file_content(st, Text(fn), fn,
                       IF items[i] = "upload_false" THEN "false"
                       ELSE IF items[i] = "upload_raise" THEN "raise" ELSE "ok")
             ins == db_add_commit(up.st,
                       IssueRow(fn, BrowseLink(IssueKey(i)),
                                issue_json_content(IssueKey(i), <<>>)),
                       IF items[i] = "db" THEN "raise" ELSE "ok")
         IN IF items[i] = "format" THEN search_loop(st, items, i + 1, document_ids)
            ELSE IF up.ret # "true" THEN search_loop(up.st, items, i + 1, document_ids)
            ELSE IF ins.exc # NoExc THEN search_loop(ins.st, items, i + 1, document_ids)
            ELSE search_loop(ins.st, items, i + 1, Append(document_ids, ins.id))

\* search_jira_issues without the try/except around one issue: the first issue
\* that raises ends the call in the outer handler
search_jira_issues_unguarded_items(st, search, bucket, items) ==
    LET op == "search_jira_issues"
        prefix == "Failed to search JIRA issues: "
        b == create_bucket_if_not_exists(st, bucket)
        raising == {i \in DOMAIN items : items[i] \in {"format", "upload_raise", "db"}}
        last == IF raising = {} THEN Len(items) ELSE SetMin(raising)
        done == search_loop(b.st, SubSeq(items, 1, last), 1, <<>>)
    IN IF search = "fail"
       THEN [st |-> st,
             ans |-> Answer(op, "fetch", 500,
                            <<prefix, "Error searching issues with JQL: ", Upstream>>, <<>>, st)]
       ELSE IF items = <<>>
       THEN [st |-> st, ans |-> [Answer(op, "none", 200, <<>>, <<>>, st) EXCEPT !.total = 0]]
       ELSE IF b.exc # NoExc
       THEN [st |-> b.st, ans |-> Answer(op, "bucket", 500, <<prefix>> \o Str(b.exc), <<>>, b.st)]
       ELSE IF raising # {}
       THEN [st |-> done.st,
             ans |-> Answer(op, "item", 500, <<prefix, items[last]>>, <<>>, done.st)]
       ELSE [st |-> done.st,
             ans |-> [Answer(op, "none", 200, <<>>, done.document_ids, done.st)
                         EXCEPT !.total = Len(items), !.items = items]]

\* search_jira_issues: search is "ok" or "fail", items the issues found
search_jira_issues(st, search, bucket, items) ==
    LET op == "search_jira_issues"
        prefix == "Failed to search JIRA issues: "
        b == create_bucket_if_not_exists(st, bucket)
        done == search_loop(b.st, items, 1, <<>>)
    IN IF search = "fail"
       THEN [st |-> st,
             ans |-> Answer(op, "fetch", 500,
                            <<prefix, "Error searching issues with JQL: ", Upstream>>, <<>>, st)]
       ELSE IF items = <<>>
       THEN [st |-> st, ans |-> [Answer(op, "none", 200, <<>>, <<>>, st) EXCEPT !.total = 0]]
       ELSE IF b.exc # NoExc
       THEN [st |-> b.st, ans |-> Answer(op, "bucket", 500, <<prefix>> \o Str(b.exc), <<>>, b.st)]
       ELSE [st |-> done.st,
             ans |-> [Answer(op, "none", 200, <<>>, done.document_ids, done.st)
                         EXCEPT !.total = Len(items), !.items = items]]

RECURSIVE project_loop_uncounted_upload(_, _, _, _, _)
\* the loop of import_jira_project without the else branch of its upload test:
\* an upload answered False is skipped without being counted
project_loop_uncounted_upload(st, items, i, document_ids, failed_count) ==
    IF i > Len(items)
    THEN [st |-> st, document_ids |-> document_ids, failed_count |-> failed_count]
    ELSE LET fn == FnIssue(IssueKey(i))
             up == upload_file_content(st, Text(fn), fn,
                       IF items[i] = "upload_false" THEN "false"
                       ELSE IF items[i] = "upload_raise" THEN "raise" ELSE "ok")
             ins == db_add_commit(up.st,
                       IssueRow(fn, BrowseLink(IssueKey(i)),
                                storage_json_content(IssueKey(i), <<>>)),
                       IF items[i] = "db" THEN "raise" ELSE "ok")
         IN IF items[i] = "format"
            THEN project_loop_uncounted_upload(st, items, i + 1, document_ids, failed_count + 1)
            ELSE IF up.ret = "raise"
            THEN project_loop_uncounted_upload(up.st, items, i + 1, document_ids,
                                               failed_count + 1)
            ELSE IF up.ret = "false"
            THEN project_loop_uncounted_upload(up.st, items, i + 1, document_ids, failed_count)
            ELSE IF ins.exc # NoExc
            THEN project_loop_uncounted_upload(ins.st, items, i + 1, document_ids,
                                               failed_count + 1)
            ELSE project_loop_uncounted_upload(ins.st, items, i + 1,
                                               Append(document_ids, ins.id), failed_count)

RECURSIVE project_loop(_, _, _, _, _)
\* import_jira_project, the loop over project_data["all_issues"]
project_loop(st, items, i, document_ids, failed_count) ==
    IF i > Len(items)
    THEN [st |-> st, document_ids |-> document_ids, failed_count |-> failed_count]
    ELSE LET fn == FnIssue(IssueKey(i))
             up == upload_file_content(st, Text(fn), fn,
                       IF items[i] = "upload_false" THEN "false"
                       ELSE IF items[i] = "upload_raise" THEN "raise" ELSE "ok")
             ins == db_add_commit(up.st,
                       IssueRow(fn, BrowseLink(IssueKey(i)),
                                storage_json_content(IssueKey(i), <<>>)),
                       IF items[i] = "db" THEN "raise" ELSE "ok")
         IN IF items[i] = "format"
            THEN project_loop(st, items, i + 1, document_ids, failed_count + 1)
            ELSE IF up.ret = "raise"
            THEN project_loop(up.st, items, i + 1, document_ids, failed_count + 1)
            ELSE IF up.ret = "false"
            THEN project_loop(up.st, items, i + 1, document_ids, failed_count + 1)
            ELSE IF ins.exc # NoExc
            THEN project_loop(ins.st, items, i + 1, document_ids, failed_count + 1)
            ELSE project_loop(ins.st, items, i + 1, Append(document_ids, ins.id), failed_count)

\* import_jira_project: fetch is process_project_issues ending "ok" or "fail"
import_jira_project(st, fetch, bucket, items) ==
    LET op == "import_jira_project"
        prefix == "Failed to import JIRA project: "
        b == create_bucket_if_not_exists(st, bucket)
        done == project_loop(b.st, items, 1, <<>>, 0)
    IN IF fetch = "fail"
       THEN [st |-> st,
             ans |-> Answer(op, "fetch", 500,
                            <<prefix, "Error processing project issues: ", Upstream>>, <<>>, st)]
       ELSE IF items = <<>>
       THEN [st |-> st, ans |-> Answer(op, "none", 200, <<>>, <<>>, st)]
       ELSE IF b.exc # NoExc
       THEN [st |-> b.st, ans |-> Answer(op, "bucket", 500, <<prefix>> \o Str(b.exc), <<>>, b.st)]
       ELSE [st |-> done.st,
             ans |-> [Answer(op, "none", 200, <<>>, done.document_ids, done.st)
                         EXCEPT !.total = Len(items), !.failed = done.failed_count,
                                !.items = items]]

-----------------------------------------------------------------------------
(* confluence/api.py                                                       *)

\* pull_confluence_page: the text goes to the object named filename, then
\* create_document (given no content) writes the JSON dump of the row
pull_confluence_page(st, u, env) ==
    LET op == "pull_confluence_page"
        prefix == "Failed to pull Confluence page: "
        fetched == fetch_page_by_url(u, env)
        fn == FnPage(PageIdOf[u])
        b == create_bucket_if_not_exists(st, env.bucket)
        up == upload_file_content(b.st, Text(fn), fn, env.upload)
        doc == create_document(up.st, Row(fn, u), NoContent, env.db, env.upload2)
    IN IF fetched # NoExc THEN [st |-> st, ans |-> PullAnswer(op, prefix, st, fetched)]
       ELSE IF format_content(env) # NoExc
       THEN [st |-> st, ans |-> PullAnswer(op, prefix, st, format_content(env))]
       ELSE IF b.exc # NoExc THEN [st |-> b.st, ans |-> PullAnswer(op, prefix, b.st, b.exc)]
       ELSE IF up.ret = "raise"
       THEN [st |-> up.st,
             ans |-> PullAnswer(op, prefix, up.st, Exception(<<"ConnectionError">>, "upload"))]
       ELSE IF up.ret = "false"
       THEN [st |-> up.st,
             ans |-> PullAnswer(op, prefix, up.st,
                        HTTPException(500, <<"Failed to upload content to MinIO">>, "upload"))]
       ELSE IF doc.exc # NoExc THEN [st |-> doc.st, ans |-> PullAnswer(op, prefix, doc.st, doc.exc)]
       ELSE [st |-> doc.st, ans |-> Answer(op, "none", 200, <<>>, <<doc.id>>, doc.st)]

-----------------------------------------------------------------------------
(* meeting/api.py                                                          *)

\* the meetings table holds this one meeting
Meetings == {1}

MeetingIds == {1, 2}

\* import_meeting_document from line 122 on, r being what the import returned: the
\* document is linked to the meeting
link_document(r, meeting_id, env) ==
    IF r.exc # NoExc \/ r.id = 0 THEN r
    ELSE IF env.link = "raise" THEN Failed(r.st, Exception(<<"OperationalError">>, "link"))
    ELSE [st |-> [r.st EXCEPT !.db[r.id].meeting_id = meeting_id], id |-> r.id, exc |-> NoExc]

\* import_meeting_document: any exception is logged and None is returned (id 0
\* here), with exc kept only to tell which step failed
import_meeting_document(st, meeting_id, req, env) ==
    link_document(Dispatch(st, req, env, NoExc), meeting_id, env)

\* import_document_to_meeting once the meeting is found, r being what
\* import_meeting_document returned
import_document_to_meeting_ends(r) ==
    IF r.id = 0
    THEN [st |-> r.st,
          ans |-> Answer("import_document_to_meeting",
                         IF r.exc = NoExc THEN "request" ELSE r.exc.at, 400,
                         <<"Failed to import document">>, <<>>, r.st)]
    ELSE [st |-> r.st,
          ans |-> Answer("import_document_to_meeting", "none", 200, <<>>, <<r.id>>, r.st)]

\* import_document_to_meeting
import_document_to_meeting(st, meeting_id, req, env) ==
    IF meeting_id \notin Meetings
    THEN [st |-> st,
          ans |-> Answer("import_document_to_meeting", "notfound", 404,
                         <<"Meeting not found">>, <<>>, st)]
    ELSE import_document_to_meeting_ends(import_meeting_document(st, meeting_id, req, env))

-----------------------------------------------------------------------------
(* The requests                                                            *)

MaxDocs == 2

MaxIssues == 2

\* the sequences over S of length at most n
SeqsUpTo(S, n) ==
    UNION {[1..k -> S] : k \in 0..n}

\* no request is being answered
NoCall == Answer("none", "none", 0, <<>>, <<>>, [trace |-> <<>>])

\* Requests are handled one at a time: a handler runs from the request to its
\* answer, and the next request is taken once the answer has been sent.
\* A call ended: the stores it leaves and its answer.
Leaves(r) ==
    /\ lastCall = NoCall
    /\ bucketExists' = r.st.bucketExists
    /\ db' = r.st.db
    /\ nextId' = r.st.nextId
    /\ blobs' = r.st.blobs
    /\ lastCall' = r.ans

Ends(r) == Leaves(r) /\ UNCHANGED <<urlVars, upload, sideVars>>

\* no pull request is in progress
NoPending == [phase |-> "idle", url |-> NoUrl, env |-> OkEnv, remote |-> "none"]

\* the worker threads that run the handlers of the meeting router
Threads == {1, 2}

\* a thread that handles no request
Idle == [pc |-> "idle", op |-> "none", meeting_id |-> 0]

\* an answer of the meeting router: the handler, the meeting of the request, the
\* status code, and what the external service did for the call ("none": not called)
MeetingAnswer(op, meeting_id, code, ext) ==
    [op |-> op, meeting_id |-> meeting_id, code |-> code, ext |-> ext]

\* no answer has been sent in a meeting run
NoAnswer == MeetingAnswer("none", 0, 0, "none")

\* no form has been sent in a file run
NoUpload == [req |-> Form("none", NoUrl, NoFile, "none", <<>>), env |-> OkEnv]

InitStore ==
    /\ bucketExists = FALSE
    /\ db = <<>>
    /\ nextId = 1
    /\ blobs = <<>>
    /\ lastCall = NoCall
    /\ upload = NoUpload
    /\ target = 0
    /\ asked = 0
    /\ pending = NoPending
    /\ meetings = <<>>
    /\ threads = [t \in Threads |-> Idle]
    /\ answer = NoAnswer

ImportDocument ==
    /\ nextId <= MaxDocs
    /\ \E req \in ImportRequests, env \in Envs : Ends(import_document(Store, req, env))

PullJiraIssue ==
    /\ nextId <= MaxDocs
    /\ \E u \in RequestUrls, env \in Envs : Ends(pull_jira_issue(Store, u, env))

PullConfluencePage ==
    /\ nextId <= MaxDocs
    /\ \E u \in RequestUrls, env \in ConfluenceEnvs : Ends(pull_confluence_page(Store, u, env))

\* the batches the adapter returns and what happens to their items; a call whose
\* search or bucket creation fails never looks at the items
Batches(fault) ==
    IF fault = "fetch" THEN {<<>>}
    ELSE IF fault = "bucket" THEN {<<"ok">>}
    ELSE {items \in SeqsUpTo(ItemOutcomes, MaxIssues) : nextId + Len(items) <= MaxDocs + 1}

SearchJiraIssues ==
    \E fault \in {"none", "fetch", "bucket"} : \E items \in Batches(fault) :
        Ends(search_jira_issues(Store, IF fault = "fetch" THEN "fail" ELSE "ok",
                                IF fault = "bucket" THEN "raise" ELSE "ok", items))

ImportJiraProject ==
    \E fault \in {"none", "fetch", "bucket"} : \E items \in Batches(fault) :
        Ends(import_jira_project(Store, IF fault = "fetch" THEN "fail" ELSE "ok",
                                 IF fault = "bucket" THEN "raise" ELSE "ok", items))

ImportDocumentToMeeting ==
    /\ nextId <= MaxDocs
    /\ \E m \in MeetingIds :
        \E req \in IF m \in Meetings THEN MeetingRequests
                   ELSE {CHOOSE r \in MeetingRequests : r.source = "content" /\ r.content = "text"},
           env \in IF m \in Meetings THEN MeetingEnvs ELSE {OkEnv} :
            Ends(import_document_to_meeting(Store, m, req, env))

DownloadDocument ==
    \E id \in 1..(MaxDocs + 1) :
        /\ Leaves(download(Store, id))
        /\ target' = id
        /\ UNCHANGED <<urlVars, upload, asked, pending, meetingVars>>

\* the answer of the last call is sent to the client
Respond ==
    /\ lastCall # NoCall
    /\ lastCall' = NoCall
    /\ target' = 0
    /\ UNCHANGED <<urlVars, bucketExists, db, nextId, blobs, upload, asked, pending,
                   meetingVars>>

Init ==
    /\ url = <<>>
    /\ tailLen = 0
    /\ parsed = parse_url(<<>>)
    /\ InitStore

Next ==
    \/ ImportDocument
    \/ PullJiraIssue
    \/ PullConfluencePage
    \/ SearchJiraIssues
    \/ ImportJiraProject
    \/ ImportDocumentToMeeting
    \/ DownloadDocument
    \/ Respond

Spec == Init /\ [][Next]_vars

-----------------------------------------------------------------------------
(* Classifier runs: parse_url applied to URLs built from a pattern-shaped  *)
(* prefix and up to MaxTail further pieces                                 *)

MaxTail == 2

Schemes == {"https", "ftp"}

PathPrefixes ==
    { <<>>,
      <<"/", "wiki">>,
      <<"/", "wiki", "/", "spaces", "/", "ABC", "/", "pages">>,
      <<"/", "display", "/", "ABC">>,
      <<"/", "pages", "/", "viewpage", ".", "action">>,
      <<"/", "browse">>,
      <<"/", "jira", "/", "browse">>,
      <<"/", "projects", "/", "ABC", "/", "issues">>,
      <<"/", "secure", "/", "RapidBoard", ".", "jspa">>,
      <<"/", "jira", "/", "software", "/", "projects", "/", "ABC", "/", "boards">>,
      <<"/", "WIKI", "/", "docs">> }

TailPieces ==
    { <<"/">>,
      <<"/", "KAN", "-", "5">>,
      <<"/", "kan", "-", "5">>,
      <<"/", "123">>,
      <<"/", "Title">>,
      <<"/", "browse">>,
      <<"?", "pageId", "=", "123">>,
      <<"?", "rapidView", "=", "42">>,
      <<"?", "u", "=", "https", ":", "/", "/", "co", "/", "browse", "/", "KAN", "-", "5">> }

InitURL ==
    /\ url \in {Host(s) \o p : s \in Schemes, p \in PathPrefixes}
    /\ tailLen = 0
    /\ parsed = parse_url(url)
    /\ InitStore

\* POST /document/detect-url with the URL one piece longer
DetectLonger ==
    /\ tailLen < MaxTail
    /\ \E t \in TailPieces :
          /\ url' = url \o t
          /\ parsed' = parse_url(url \o t)
    /\ tailLen' = tailLen + 1
    /\ UNCHANGED <<storeVars, upload, sideVars>>

NextURL == DetectLonger

SpecURL == InitURL /\ [][NextURL]_vars

-----------------------------------------------------------------------------
(* meeting/api.py: the handlers over the meetings table mt, id -> row. The *)
(* result is the table and the status code. start_meeting and stop_meeting *)
(* are in two parts, before and from the call of the external service.     *)

\* the start_time and end_time of the requests
Times == 1..2

\* the pid the external service answers /start with
Pids == {"pid 7"}

\* a pid column that is NULL
Null == "NULL"

\* schedule_meeting: the row is added with status "scheduled"
schedule_meeting(mt, start_time, end_time) ==
    IF end_time <= start_time THEN [mt |-> mt, code |-> 400]
    ELSE [mt |-> Append(mt, [status |-> "scheduled", pid |-> Null,
                             start_time |-> start_time, end_time |-> end_time]),
          code |-> 200]

\* setattr(meeting, field, value) if field is in update_data, the fields of the
\* body that are set
SetField(row, meeting_update, field) ==
    IF field \in meeting_update.set THEN [row EXCEPT ![field] = meeting_update[field]]
    ELSE row

\* update_meeting: every field that is set is written as it is
update_meeting(mt, id, meeting_update) ==
    IF id \notin DOMAIN mt THEN [mt |-> mt, code |-> 404]
    ELSE [mt |-> [mt EXCEPT ![id] =
                    SetField(SetField(SetField(@, meeting_update, "start_time"),
                                      meeting_update, "end_time"),
                             meeting_update, "status")],
          code |-> 200]

\* cancel_meeting
cancel_meeting(mt, id) ==
    IF id \notin DOMAIN mt THEN [mt |-> mt, code |-> 404]
    ELSE [mt |-> [mt EXCEPT ![id].status = "cancelled"], code |-> 200]

\* complete_meeting
complete_meeting(mt, id) ==
    IF id \notin DOMAIN mt THEN [mt |-> mt, code |-> 404]
    ELSE [mt |-> [mt EXCEPT ![id].status = "completed"], code |-> 200]

\* start_meeting up to the external call: the code it raises, 0 if it goes on
start_check(mt, id) ==
    IF id \notin DOMAIN mt THEN 404
    ELSE IF mt[id].status = "started" THEN 400
    ELSE 0

\* start_meeting that marks the meeting started before it calls the service
start_call_marking_first(mt, id, ext) ==
    IF ext = "fail" THEN [mt |-> [mt EXCEPT ![id].status = "started"], code |-> 502]
    ELSE IF ext = "nopid" THEN [mt |-> [mt EXCEPT ![id].status = "started"], code |-> 500]
    ELSE [mt |-> [mt EXCEPT ![id].status = "started", ![id].pid = ext], code |-> 200]

\* start_meeting from the external call on: ext is "fail" (RequestException),
\* "nopid" (an answer without pid) or the pid
start_call(mt, id, ext) ==
    IF ext = "fail" THEN [mt |-> mt, code |-> 502]
    ELSE IF ext = "nopid" THEN [mt |-> mt, code |-> 500]
    ELSE [mt |-> [mt EXCEPT ![id].status = "started", ![id].pid = ext], code |-> 200]

\* stop_meeting up to the external call
stop_check(mt, id) ==
    IF id \notin DOMAIN mt THEN 404
    ELSE IF mt[id].status # "started" THEN 400
    ELSE IF mt[id].pid = Null THEN 400
    ELSE 0

\* stop_meeting from the external call on: ext is "ok" or "fail"
stop_call(mt, id, ext) ==
    IF ext = "fail" THEN [mt |-> mt, code |-> 502]
    ELSE [mt |-> [mt EXCEPT ![id].status = "completed"], code |-> 200]

-----------------------------------------------------------------------------
(* Document runs: imports, then GET, download and DELETE of /document/{id} *)

GetDocument ==
    \E id \in 1..(MaxDocs + 1) :
        /\ Leaves(get_document(Store, id))
        /\ target' = id
        /\ UNCHANGED <<urlVars, upload, asked, pending, meetingVars>>

DeleteDocument ==
    \E id \in 1..(MaxDocs + 1), env \in {OkEnv, [OkEnv EXCEPT !.db = "raise"]} :
        /\ Leaves(delete_document(Store, id, env))
        /\ target' = id
        /\ UNCHANGED <<urlVars, upload, asked, pending, meetingVars>>

NextDocs ==
    \/ ImportDocument
    \/ GetDocument
    \/ DownloadDocument
    \/ DeleteDocument
    \/ Respond

SpecDocs == Init /\ [][NextDocs]_vars

-----------------------------------------------------------------------------
(* Batch runs: POST /jira/search and POST /jira/project/import with the     *)
(* max_results of the request; the JIRA search API returns the first        *)
(* maxResults issues of those that match                                    *)

\* the maxResults a JIRA search returns at most, over the issues that match
FirstIssues(held, maxResults) ==
    SubSeq(held, 1, IF Len(held) < maxResults THEN Len(held) ELSE maxResults)

\* search_issues_by_jql(jql, max_results)
search_issues_by_jql(held, max_results) == FirstIssues(held, max_results)

\* fetch_all_project_issues(project_key, max_results: int = 1000)
PROJECT_MAX_RESULTS == 1000

\* process_project_issues: self.fetch_all_project_issues(project_key)
fetch_all_project_issues(held) == FirstIssues(held, PROJECT_MAX_RESULTS)

\* the issues that match in JIRA, and what happens to each when it is imported
Held == SeqsUpTo(ItemOutcomes, MaxIssues)

SearchWithLimit ==
    \E held \in Held, max_results \in 1..MaxIssues :
        /\ nextId + Len(search_issues_by_jql(held, max_results)) <= MaxDocs + 1
        /\ Leaves(search_jira_issues(Store, "ok", "ok",
                                     search_issues_by_jql(held, max_results)))
        /\ asked' = max_results
        /\ UNCHANGED <<urlVars, upload, target, pending, meetingVars>>

ImportProjectWithLimit ==
    \E held \in Held, max_results \in 1..MaxIssues :
        /\ nextId + Len(fetch_all_project_issues(held)) <= MaxDocs + 1
        /\ Leaves(import_jira_project(Store, "ok", "ok", fetch_all_project_issues(held)))
        /\ asked' = max_results
        /\ UNCHANGED <<urlVars, upload, target, pending, meetingVars>>

NextBatch ==
    \/ SearchWithLimit
    \/ ImportProjectWithLimit
    \/ Respond

SpecBatch == Init /\ [][NextBatch]_vars

-----------------------------------------------------------------------------
(* Pull runs: POST /jira/pull step by step. The handler is received, calls  *)
(* the JIRA REST API with requests.get(url, auth=...), which is given no    *)
(* timeout and so returns only when the remote answers or the connection    *)
(* fails, and then runs to its answer.                                      *)

\* what the remote does with the connection: it answers (with the issue or an
\* error status, env.fetch), or it accepts the connection and never answers
Remotes == {"responds", "silent"}

ReceivePull ==
    /\ lastCall = NoCall
    /\ pending.phase = "idle"
    /\ nextId <= MaxDocs
    /\ \E u \in RequestUrls, env \in Envs, remote \in Remotes :
          pending' = [phase |-> "received", url |-> u, env |-> env, remote |-> remote]
    /\ UNCHANGED <<urlVars, storeVars, upload, target, asked, meetingVars>>

\* the handler runs from its remote call to its answer, r being what it does
PullEnds(r) ==
    /\ Leaves(r)
    /\ pending' = [pending EXCEPT !.phase = IF r.ans.code = 200 THEN "done" ELSE "failed"]
    /\ UNCHANGED <<urlVars, upload, target, asked, meetingVars>>

\* requests.get returns or raises; no call is made for a URL without an issue key
FetchReturns ==
    /\ pending.phase = "received"
    /\ pending.remote = "responds" \/ IssueKeyOf[pending.url] = <<>>
    /\ PullEnds(pull_jira_issue(Store, pending.url, pending.env))

\* the answer is sent and the request is over
SendAnswer ==
    /\ pending.phase \in {"done", "failed"}
    /\ lastCall' = NoCall
    /\ pending' = NoPending
    /\ UNCHANGED <<urlVars, bucketExists, db, nextId, blobs, upload, target, asked,
                   meetingVars>>

NextPull ==
    \/ ReceivePull
    \/ FetchReturns
    \/ SendAnswer

\* a handler that can take its next step takes it
SpecPull ==
    Init /\ [][NextPull]_vars /\ WF_vars(FetchReturns) /\ WF_vars(SendAnswer)

-----------------------------------------------------------------------------
(* Meeting runs: the handlers of the meeting router, each request on its    *)
(* own worker thread with its own database session. A handler that calls    *)
(* the external service can be overtaken by other requests while it waits.  *)

MaxMeetings == 1

\* the ids the requests name: the meetings and one id that has no row
RequestedIds == 1..(MaxMeetings + 1)

\* the bodies of PUT /meetings/{id}: the fields that are set
MeetingUpdate(set, start_time, end_time, status) ==
    [set |-> set, start_time |-> start_time, end_time |-> end_time, status |-> status]

UpdateForms ==
    { MeetingUpdate({"status"}, 1, 2, "started"),
      MeetingUpdate({"status"}, 1, 2, "scheduled"),
      MeetingUpdate({"end_time"}, 1, 1, "scheduled"),
      MeetingUpdate({"start_time"}, 2, 2, "scheduled") }

\* a handler without external call ends: the table it leaves and its answer
MeetingEnds(op, id, r) ==
    /\ meetings' = r.mt
    /\ answer' = MeetingAnswer(op, id, r.code, "none")
    /\ UNCHANGED <<urlVars, storeVars, upload, target, asked, pending, threads>>

ScheduleMeeting ==
    /\ Len(meetings) < MaxMeetings
    /\ \E start_time \in Times, end_time \in Times :
          MeetingEnds("schedule_meeting", Len(meetings) + 1,
                      schedule_meeting(meetings, start_time, end_time))

UpdateMeeting ==
    \E id \in RequestedIds, meeting_update \in UpdateForms :
        MeetingEnds("update_meeting", id, update_meeting(meetings, id, meeting_update))

CancelMeeting ==
    \E id \in RequestedIds : MeetingEnds("cancel_meeting", id, cancel_meeting(meetings, id))

CompleteMeeting ==
    \E id \in RequestedIds :
        MeetingEnds("complete_meeting", id, complete_meeting(meetings, id))

\* thread t takes a request of handler op up to its external call: it raises
\* code, or goes on to the call
Check(t, op, id, code) ==
    /\ threads[t].pc = "idle"
    /\ IF code = 0
       THEN /\ threads' = [threads EXCEPT ![t] = [pc |-> "calling", op |-> op,
                                                  meeting_id |-> id]]
            /\ UNCHANGED answer
       ELSE /\ answer' = MeetingAnswer(op, id, code, "none")
            /\ UNCHANGED threads
    /\ UNCHANGED <<urlVars, storeVars, upload, target, asked, pending, meetings>>

\* thread t gets ext from the external service and runs to its answer
Call(t, op, ext, r) ==
    /\ threads[t].pc = "calling" /\ threads[t].op = op
    /\ meetings' = r.mt
    /\ answer' = MeetingAnswer(op, threads[t].meeting_id, r.code, ext)
    /\ threads' = [threads EXCEPT ![t] = Idle]
    /\ UNCHANGED <<urlVars, storeVars, upload, target, asked, pending>>

StartMeetingCheck ==
    \E t \in Threads, id \in RequestedIds :
        Check(t, "start_meeting", id, start_check(meetings, id))

StartMeetingCall ==
    \E t \in Threads, ext \in {"fail", "nopid"} \cup Pids :
        Call(t, "start_meeting", ext, start_call(meetings, threads[t].meeting_id, ext))

StopMeetingCheck ==
    \E t \in Threads, id \in RequestedIds :
        Check(t, "stop_meeting", id, stop_check(meetings, id))

StopMeetingCall ==
    \E t \in Threads, ext \in {"fail", "ok"} :
        Call(t, "stop_meeting", ext, stop_call(meetings, threads[t].meeting_id, ext))

NextMeeting ==
    \/ ScheduleMeeting
    \/ UpdateMeeting
    \/ CancelMeeting
    \/ CompleteMeeting
    \/ StartMeetingCheck
    \/ StartMeetingCall
    \/ StopMeetingCheck
    \/ StopMeetingCall

SpecMeeting == Init /\ [][NextMeeting]_vars

-----------------------------------------------------------------------------
(* File runs: POST /document/import with uploaded files and direct content, *)
(* the form and the environment of each call kept in upload                *)

FnOriginals ==
    { <<>>,
      <<"my", " ", "notes", "/", "v2", ".txt">>,
      <<"caf", "é", " ", "-", "menu", ".txt">> }

\* the filename parameter of the form
FnParams == { <<>>, <<"..", "/", "my", " ", "notes", ".txt">> }

\* uploads of one text file under every name, and of every media type and payload
\* under one name
FileForms ==
    {Form("file", NoUrl, File("text/plain", o, "readable"), "none", f) :
        o \in FnOriginals, f \in FnParams}
    \cup {Form("file", NoUrl, File(ct, <<"report", GuessExtension(ct)>>, p), "none", <<>>) :
             ct \in SUPPORTED_FILE_TYPES \cup {"image/png"},
             p \in {"readable", "unreadable"}}
    \cup {Form("content", NoUrl, NoFile, "text", f) : f \in FnParams}

\* PyPDF2 may not be installed
FileEnvs == {OkEnv, [OkEnv EXCEPT !.pdf = FALSE]} \cup PersistEnvs

ImportFile ==
    /\ nextId <= MaxDocs
    /\ \E req \in FileForms, env \in FileEnvs :
          /\ Leaves(import_document(Store, req, env))
          /\ upload' = [req |-> req, env |-> env]
    /\ UNCHANGED <<urlVars, sideVars>>

\* the issues the search of a board returns, and what fetch_issue_by_key does for
\* each of them
BoardEnvs ==
    {[OkEnv EXCEPT !.board = b] : b \in SeqsUpTo({"ok", "fail"}, MaxIssues)}
    \cup {[OkEnv EXCEPT !.fetch = "fail"]} \cup PersistEnvs

\* POST /document/import with the URL of a JIRA board
ImportBoard ==
    /\ nextId <= MaxDocs
    /\ \E env \in BoardEnvs :
          /\ Leaves(import_document(Store, Form("url", UrlBoard, NoFile, "none", <<>>), env))
          /\ upload' = [req |-> Form("url", UrlBoard, NoFile, "none", <<>>), env |-> env]
    /\ UNCHANGED <<urlVars, sideVars>>

NextFile ==
    \/ ImportFile
    \/ ImportBoard
    \/ Respond

SpecFile == Init /\ [][NextFile]_vars

-----------------------------------------------------------------------------
(* Properties                                                              *)

BatchOps == {"search_jira_issues", "import_jira_project"}

SingleOps == {"import_document", "pull_jira_issue", "pull_confluence_page"}

\* the positions of the events of one kind in what the last call did
Events(kind) == {j \in DOMAIN lastCall.trace : lastCall.trace[j].e = kind}

\* the items of the last batch that failed while being processed
FailedItems == {i \in DOMAIN lastCall.items : lastCall.items[i] # "ok"}

\* C1: a batch import over N issues of which K fail attempts every issue, returns
\* N - K document ids and total N, and for the project import failed_count = K, so
\* that len(document_ids) + failed_count = total_issues.
C1_BatchAccounting ==
    (lastCall.op \in BatchOps /\ lastCall.code = 200) =>
        LET N == Len(lastCall.items)
            K == Cardinality(FailedItems)
        IN /\ Len(lastCall.document_ids) = N - K
           /\ lastCall.total = N
           /\ lastCall.op = "import_jira_project" =>
                 /\ lastCall.failed = K
                 /\ Len(lastCall.document_ids) + lastCall.failed = lastCall.total
           /\ \A i \in 1..N : lastCall.items[i] # "format" =>
                 \E j \in DOMAIN lastCall.trace :
                     lastCall.trace[j].key = FnIssue(IssueKey(i))

\* a project import of two issues whose first fails at the upload and whose second
\* is stored
C1_Witness ==
    /\ lastCall.op = "import_jira_project"
    /\ lastCall.code = 200
    /\ lastCall.items = <<"upload_false", "ok">>
    /\ Len(lastCall.document_ids) = 1
    /\ lastCall.failed = 1

\* C2 as written: a batch import never answers with an error, whatever fails.
C2_BatchNeverRaises ==
    lastCall.op \in BatchOps => lastCall.code = 200

\* C2: a batch import never answers with an error because of its items, however
\* many of them fail; the only error answers are the 500 of a failed search or
\* project fetch and the 500 of a failed bucket creation.
C2_BatchRaisesOnlyBeforeItems ==
    lastCall.op \in BatchOps =>
        \/ lastCall.code = 200 /\ lastCall.cause = "none"
        \/ lastCall.code = 500 /\ lastCall.cause \in {"fetch", "bucket"}

\* a search whose two issues both fail, one of them with an exception, answered
\* with a summary
C2_Witness ==
    /\ lastCall.op = "search_jira_issues"
    /\ lastCall.code = 200
    /\ Len(lastCall.items) = 2
    /\ Cardinality(FailedItems) = 2
    /\ \E i \in FailedItems : lastCall.items[i] \in {"format", "upload_raise", "db"}
    /\ lastCall.document_ids = <<>>

\* C3: in every import path an object is written only after the row of its
\* document has been committed: each write of a call follows the commit, in the
\* same call, of a row with the file name the object is named after.
C3_BlobAfterRow ==
    lastCall.op \in SingleOps \cup BatchOps =>
        \A j \in Events("blob") :
            \E k \in Events("row") :
                /\ k < j
                /\ lastCall.trace[j].key \in
                      {lastCall.trace[k].filename,
                       IdKey(lastCall.trace[k].id, lastCall.trace[k].filename)}

\* C4: a single import answered with success and a document id has created
\* exactly one row and written exactly one object.
C4_OneRowOneBlob ==
    (lastCall.op \in SingleOps /\ lastCall.code = 200) =>
        /\ Cardinality(Events("row")) = 1
        /\ Cardinality(Events("blob")) = 1

\* C5: a single import that fails at classification, remote fetch or
\* normalization, or whose insert fails, leaves no row and no object that did not
\* exist before the call.
C5_FailureLeavesStores ==
    [][(/\ lastCall'.op \in SingleOps
        /\ lastCall'.cause \in {"classification", "url", "fetch", "format", "db"})
       => (DOMAIN db' \subseteq DOMAIN db /\ DOMAIN blobs' \subseteq DOMAIN blobs)]_vars

\* C6: an import whose object write was answered False after the row was
\* committed does not answer with success.
C6_UploadFailureReported ==
    (/\ lastCall.op \in SingleOps \cup {"import_document_to_meeting"}
     /\ \E j \in Events("blob_failed") : \E k \in Events("row") :
            /\ k < j
            /\ lastCall.trace[j].key =
                  IdKey(lastCall.trace[k].id, lastCall.trace[k].filename))
    => lastCall.code # 200

\* C7: every object an import writes is stored under the key {id}_{filename} of
\* a document row, and downloading a document an import created returns the
\* content stored for it.
C7_BlobKeyRoundTrip ==
    /\ lastCall.op \in SingleOps \cup BatchOps =>
          \A j \in Events("blob") :
              \E id \in DOMAIN db : lastCall.trace[j].key = IdKey(id, db[id].filename)
    /\ (lastCall.op = "download_document" /\ lastCall.code = 200) =>
          lastCall.content # NoContent

\* C8: on POST /document/import a URL matching no pattern, an unsupported file
\* type, an unknown source tag and a missing parameter are answered 4xx.
C8_InputErrorsAre4xx ==
    (lastCall.op = "import_document" /\ lastCall.cause \in {"classification", "request"})
    => lastCall.code \in 400..499

\* C9: a failed remote fetch during a single import, the meeting-scoped import
\* included, is answered 5xx with the upstream error message.
C9_FetchFailureIs5xx ==
    (/\ lastCall.op \in SingleOps \cup {"import_document_to_meeting"}
     /\ lastCall.cause = "fetch")
    => /\ lastCall.code \in 500..599
       /\ \E i \in DOMAIN lastCall.detail : lastCall.detail[i] = Upstream

\* C10: parse_url returns source type unknown exactly when the identifier it
\* returns is None.
C10_UnknownIffNoIdentifier ==
    (parsed.source_type = "unknown") <=> (parsed.identifier = None)

\* C11: a URL matching one of the four Confluence patterns is classified
\* confluence with an identifier that is a page id made of digits; a URL matching
\* no pattern is classified unknown with is_valid false.
C11_ConfluenceHasPageId ==
    /\ MatchesAny(CONFLUENCE_PATTERNS, url) =>
          /\ parsed.source_type = "confluence"
          /\ parsed.identifier # None
          /\ parsed.identifier.t = "page"
          /\ \A i \in DOMAIN parsed.identifier.id : parsed.identifier.id[i] \in DigitAtoms
    /\ (~MatchesAny(CONFLUENCE_PATTERNS, url) /\ ~MatchesAny(JIRA_PATTERNS, url)) =>
          parsed.source_type = "unknown" /\ ~parsed.is_valid

\* C12: a URL whose only issue key has a lowercase project key (/browse/kan-5), and
\* which is neither a Confluence nor a board URL, is classified unknown with
\* is_valid false.
C12_LowercaseKeyUnknown ==
    (/\ Search(BrowseKeyRe, url, TRUE)
     /\ ~Search(IssueKeyRe, url, FALSE)
     /\ ~MatchesAny(CONFLUENCE_PATTERNS, url)
     /\ ~Search(BoardRe, url, TRUE)
     /\ ~Search(RapidViewRe, url, TRUE))
    => parsed.source_type = "unknown" /\ ~parsed.is_valid

\* C13: a browse URL https://host/browse/KEY-N or https://host/jira/browse/KEY-N
\* with an uppercase key, matching no Confluence pattern, is classified jira,
\* url_type issue, with that key as identifier, whatever follows the key.
C13_BrowseUrlIsIssue ==
    (/\ Search(JIRA_PATTERNS[1], url, FALSE) \/ Search(JIRA_PATTERNS[2], url, FALSE)
     /\ ~MatchesAny(CONFLUENCE_PATTERNS, url)) =>
        /\ parsed.source_type = "jira"
        /\ parsed.url_type = "issue"
        /\ parsed.identifier = [t |-> "issue", key |-> Group(BrowseKeyRe, url, FALSE, 4, 6)]

\* C14: a URL classified with url_type board carries a board descriptor with a
\* project key.
C14_BoardHasProjectKey ==
    parsed.url_type = "board" =>
        /\ parsed.identifier.t = "board"
        /\ parsed.identifier.project_key # <<>>

\* C15: no URL matches both a Confluence pattern and a JIRA pattern, so that
\* trying the JIRA patterns first classifies every URL the same.
C15_PatternSetsDisjoint ==
    /\ ~(MatchesAny(CONFLUENCE_PATTERNS, url) /\ MatchesAny(JIRA_PATTERNS, url))
    /\ parsed.source_type =
          (IF url = <<>> THEN "unknown"
           ELSE IF MatchesAny(JIRA_PATTERNS, url) THEN "jira"
           ELSE IF MatchesAny(CONFLUENCE_PATTERNS, url) THEN "confluence"
           ELSE "unknown")

\* C16: an import that succeeds creates a record under an id no record had,
\* whatever was imported before, and leaves every earlier record as it was.
C16_NoDedup ==
    [][(/\ lastCall'.op \in SingleOps \cup BatchOps \cup {"import_document_to_meeting"}
        /\ lastCall'.code = 200)
       => /\ \A i \in DOMAIN lastCall'.document_ids :
                /\ lastCall'.document_ids[i] \notin DOMAIN db
                /\ lastCall'.document_ids[i] \in DOMAIN db'
          /\ \A id \in DOMAIN db : id \in DOMAIN db' /\ db'[id] = db[id]]_vars

\* the same issue URL pulled twice, both times with success
C16_Witness ==
    /\ lastCall.op = "pull_jira_issue"
    /\ lastCall.code = 200
    /\ \E a, b \in DOMAIN db :
          /\ a # b
          /\ lastCall.document_ids = <<b>>
          /\ db[a].external_link = UrlIssue
          /\ db[b] = db[a]

\* C18: the doc_type of a stored document is the source kind of its import: jira
\* for a JIRA URL, confluence for a Confluence URL, file for an upload or content.
C18_DocTypeIsSourceKind ==
    \A id \in DOMAIN db :
        db[id].doc_type =
            (IF db[id].external_link = NoUrl THEN "file"
             ELSE IF db[id].external_link \in RequestUrls
             THEN ParsedUrl[db[id].external_link].source_type
             ELSE "jira")


\* the atoms of a file name that hold a character outside [A-Za-z0-9_-]
UnsafeAtoms == {" ", "/", "$", ".", "..", "é"}

Extensions == {".txt", ".pdf"}

\* fn is made of characters of [A-Za-z0-9_-] and ends with its one extension
KeySafe(fn) ==
    /\ \A i \in DOMAIN fn : fn[i] \notin UnsafeAtoms
    /\ \A i \in DOMAIN fn : fn[i] \in Extensions => i = Len(fn)

\* C17: every filename an import stores on a document record is object-key-safe:
\* apart from its extension it holds only characters of [A-Za-z0-9_-], no
\* whitespace and no path separator, whether or not the caller supplied it.
C17_StoredFilenameKeySafe == \A id \in DOMAIN db : KeySafe(db[id].filename)


\* the call that just ended is a file upload whose bucket, insert and object
\* write all worked
FileImported ==
    /\ lastCall'.op = "import_document"
    /\ upload'.req.source = "file"
    /\ upload'.req.file # NoFile
    /\ upload'.env.bucket = "ok" /\ upload'.env.db = "ok" /\ upload'.env.upload = "ok"

\* the call that just ended stored one new record, and the object written for it
\* holds the text the record's metadata holds, which is not empty
OneRecordWithExtractedText ==
    /\ lastCall'.code = 200
    /\ Len(lastCall'.document_ids) = 1
    /\ LET id == lastCall'.document_ids[1]
       IN /\ id \notin DOMAIN db
          /\ DOMAIN db' = DOMAIN db \cup {id}
          /\ db'[id].content.content # <<>>
          /\ IdKey(id, db'[id].filename) \in DOMAIN blobs'
          /\ blobs'[IdKey(id, db'[id].filename)] = db'[id].content.content
          /\ DOMAIN blobs' = DOMAIN blobs \cup {IdKey(id, db'[id].filename)}

\* C19 as stated: extraction never aborts a file import: whatever the payload and
\* the declared media type, unsupported ones included, the import stores exactly
\* one record with the extracted string as the content of its object.
C19_EveryUploadPersisted == [][FileImported => OneRecordWithExtractedText]_vars

\* C19, amended: for every payload of a supported media type - corrupt, or read
\* without the extraction library, or of a type that has no extractor - the file
\* import stores exactly one record with the extracted string as the content of
\* its object; a corrupt PDF is stored with content starting "Error extracting
\* PDF content: ".
C19_SupportedUploadPersisted ==
    [][(FileImported /\ is_supported_file_type(upload'.req.file.content_type))
       => /\ OneRecordWithExtractedText
          /\ (/\ upload'.req.file.content_type = "application/pdf"
              /\ upload'.req.file.payload = "unreadable"
              /\ upload'.env.pdf)
             => Head(db'[lastCall'.document_ids[1]].content.content)
                    = "Error extracting PDF content: "]_vars

\* a corrupt PDF has been imported and its object starts with the error text
C19_Witness ==
    /\ lastCall.op = "import_document" /\ lastCall.code = 200
    /\ upload.req.file.content_type = "application/pdf"
    /\ upload.req.file.payload = "unreadable"
    /\ \E id \in DOMAIN db :
          /\ lastCall.document_ids = <<id>>
          /\ Head(blobs[IdKey(id, db[id].filename)]) = "Error extracting PDF content: "


\* the texts read_file_content returns when it could not extract the file as
\* its media type says: the latin-1 decoding, the base64 marker, the missing
\* library, the extraction error, the type without an extractor
DegradedText(content) ==
    \/ content = <<"text decoded as latin-1">>
    \/ content = <<"PDF processing not available. Please install PyPDF2.">>
    \/ content # <<>> /\ Head(content) \in {"Error extracting PDF content: ",
                                           "Unsupported file type: ", "Document type "}

\* the records of uploaded files
FileRows ==
    {id \in DOMAIN db : /\ "extraction_method" \in DOMAIN db[id].content
                        /\ db[id].content # NoMetadata}

\* C20: degraded extraction shows in the metadata: a record whose text is a
\* fallback or an error text carries an extraction_method tag that differs from
\* the tag of a record of the same media type whose text was extracted in full.
C20_DegradedTagDiffers ==
    \A a \in FileRows, b \in FileRows :
        (/\ db[a].content.content_type = db[b].content.content_type
         /\ DegradedText(db[a].content.content)
         /\ ~DegradedText(db[b].content.content))
        => db[a].content.extraction_method # db[b].content.extraction_method


\* C25: a meeting-scoped import is all-or-nothing: answered with success, the
\* one new document carries the meeting's id; answered with an error (meeting
\* not found, a failed import, a failure while linking), the call has created
\* no document row.
C25_MeetingImportAllOrNothing ==
    [][lastCall'.op = "import_document_to_meeting"
       => IF lastCall'.code = 200
          THEN /\ Len(lastCall'.document_ids) = 1
               /\ lastCall'.document_ids[1] \notin DOMAIN db
               /\ lastCall'.document_ids[1] \in DOMAIN db'
               /\ db'[lastCall'.document_ids[1]].meeting_id \in Meetings
          ELSE DOMAIN db' = DOMAIN db]_vars


\* C30: a successful DELETE /document/{id} removes the row id and nothing else:
\* the other rows and every object of the store, the object of the deleted
\* document included, stay as they were; and GET, download and DELETE of an id
\* that has no row, a deleted one included, answer 404 and change nothing.
C30_DeleteRemovesOnlyTheRow ==
    [][/\ (lastCall'.op = "delete_document" /\ lastCall'.code = 200)
          => /\ target' \in DOMAIN db
             /\ db' = WithoutRow(db, target')
             /\ blobs' = blobs
             /\ bucketExists' = bucketExists /\ nextId' = nextId
       /\ (/\ lastCall'.op \in {"get_document", "download_document", "delete_document"}
           /\ target' \notin DOMAIN db)
          => /\ lastCall'.code = 404
             /\ db' = db /\ blobs' = blobs]_vars

\* the download of a deleted document is answered 404 while its object is
\* still in the store
C30_Witness ==
    /\ lastCall.op = "download_document" /\ lastCall.code = 404
    /\ target < nextId
    /\ target \notin DOMAIN db
    /\ \E k \in DOMAIN blobs : k[1] = ToString(target)


\* C21: every single import that was received eventually reaches Done or
\* Failed, even when the remote service never responds.
C21_ImportTerminates ==
    (pending.phase = "received") ~> (pending.phase \in {"done", "failed"})


\* the rows of single JIRA issues
IssueRows == {id \in DOMAIN db : Head(db[id].filename) = "jira-"}

\* C22: the structured metadata stored for every imported JIRA issue holds the
\* issue key, summary, description, type, status, priority, assignee, reporter,
\* project name and key, created and updated, and a subtasks array, which is
\* empty and never absent when no subtask was fetched.
C22_IssueMetadataComplete ==
    \A id \in IssueRows :
        /\ IssueFields \subseteq DOMAIN db[id].content
        /\ "subtasks" \in DOMAIN db[id].content
        /\ db[id].content.subtasks \in {<<>>, <<[key |-> Subtask.key,
                                                summary |-> Subtask.summary,
                                                status |-> Subtask.status]>>}


\* C23: a batch import honours max_results: the number of issues the search
\* import and the project import fetch and process (total_found, total_issues)
\* is never above the max_results of the request.
C23_BatchHonoursMaxResults ==
    (lastCall.op \in BatchOps /\ lastCall.code = 200) => lastCall.total <= asked


\* C24: a board import isolates the failures of single issues: when the search
\* of the board worked, the import completes with its one board document even
\* if the detailed fetch of some of the issues failed.
C24_BoardImportIsolatesIssues ==
    (/\ lastCall.op = "import_document"
     /\ upload.req.url = UrlBoard
     /\ upload.env.fetch = "ok"
     /\ upload.env.bucket = "ok" /\ upload.env.db = "ok" /\ upload.env.upload = "ok")
    => (lastCall.code = 200 /\ Len(lastCall.document_ids) = 1)


\* C26: after any sequence of schedule, update, start, stop, complete and
\* cancel, every meeting whose status is "started" has a pid, so that
\* stop_meeting never rejects a started meeting for a missing process ID.
C26_StartedHasPid ==
    \A id \in DOMAIN meetings : meetings[id].status = "started" => meetings[id].pid # Null

\* C27: after any sequence of schedule and update, every stored meeting has its
\* end_time strictly after its start_time.
C27_EndAfterStart ==
    \A id \in DOMAIN meetings : meetings[id].end_time > meetings[id].start_time

\* C28: start_meeting and stop_meeting change the meeting only after the external
\* call succeeded: if the call failed, or /start answered without pid, or the
\* request was rejected before the call, the table is unchanged and an error is
\* answered; and stop_meeting goes on to the call only for a meeting whose
\* status is "started".
C28_StateChangesAfterExternalSuccess ==
    [][/\ (answer'.op \in {"start_meeting", "stop_meeting"} /\ answer'.ext \notin Pids \cup {"ok"})
          => (meetings' = meetings /\ answer'.code >= 400)
       /\ \A t \in Threads :
            (threads'[t].pc = "calling" /\ threads[t].pc = "idle"
             /\ threads'[t].op = "stop_meeting")
            => (/\ meetings' = meetings
                /\ meetings[threads'[t].meeting_id].status = "started")]_vars

\* the external /start answered without a pid: 500, and the meeting is as scheduled
C28_Witness ==
    /\ answer = MeetingAnswer("start_meeting", 1, 500, "nopid")
    /\ 1 \in DOMAIN meetings
    /\ meetings[1].status = "scheduled"
    /\ meetings[1].pid = Null

\* C29: of two start_meeting requests on the same meeting, whatever their
\* interleaving, at most one goes on to call the external /start service; the
\* other is rejected with "Meeting has already started".
C29_OneStartPerMeeting ==
    \A t1 \in Threads, t2 \in Threads :
        (/\ t1 # t2
         /\ threads[t1].pc = "calling" /\ threads[t1].op = "start_meeting"
         /\ threads[t2].pc = "calling" /\ threads[t2].op = "start_meeting")
        => threads[t1].meeting_id # threads[t2].meeting_id

====
